---- MODULE Spec2Model ----
(***************************************************************************)
(* Users Management API: request validation, the three user operations     *)
(* (create, fetch, delete), the error mapper and the HTTP routes, over a   *)
(* users table with a unique email column and store-assigned identifiers. *)
(*                                                                         *)
(* A JavaScript string is a sequence of one-character strings, so that     *)
(* trim, toLowerCase, the regular expressions and String.includes are      *)
(* computed character by character.                                       *)
(***************************************************************************)
EXTENDS Integers, Sequences, FiniteSets, Bags, TLC

VARIABLES users, allocated, inflight, last, everCreated, deleted,
          pool, created, ending, ended, awaiting, lastCall

appVars == <<users, allocated, inflight, last, everCreated, deleted>>

connVars == <<pool, created, ending, ended, awaiting, lastCall>>

vars == <<appVars, connVars>>

(***************************************************************************)
(* Bounds of the model and constants of the program.                       *)
(***************************************************************************)
MaxInserts == 2

MaxInFlight == 2

MaxPools == 2

MaxAwaiting == 2

MaxFieldLength == 255

MinPasswordLength == 8

(***************************************************************************)
(* Strings.                                                                *)
(***************************************************************************)
Whitespace == {" ", "\t"}

UpperCase == <<"A", "B", "C", "D", "E", "F", "G", "H", "I", "J", "K", "L", "M", "N", "O", "P", "Q", "R", "S", "T", "U", "V", "W", "X", "Y", "Z">>

LowerCase == <<"a", "b", "c", "d", "e", "f", "g", "h", "i", "j", "k", "l", "m", "n", "o", "p", "q", "r", "s", "t", "u", "v", "w", "x", "y", "z">>

HexDigits == {"0", "1", "2", "3", "4", "5", "6", "7", "8", "9", "a", "b", "c", "d", "e", "f"}

Repeat(c, n) == [i \in 1..n |-> c]

toLowerCaseChar(c) ==
  IF \E i \in 1..26 : UpperCase[i] = c
    THEN LowerCase[CHOOSE i \in 1..26 : UpperCase[i] = c]
    ELSE c

toLowerCase(s) == [i \in 1..Len(s) |-> toLowerCaseChar(s[i])]

firstKept(s) ==
  CHOOSE i \in 1..(Len(s) + 1) :
    /\ i = Len(s) + 1 \/ s[i] \notin Whitespace
    /\ \A j \in 1..(i - 1) : s[j] \in Whitespace

lastKept(s) ==
  CHOOSE i \in 0..Len(s) :
    /\ i = 0 \/ s[i] \notin Whitespace
    /\ \A j \in (i + 1)..Len(s) : s[j] \in Whitespace

trim(s) ==
  LET from == firstKept(s)
      to == lastKept(s)
  IN  IF from > to THEN <<>> ELSE SubSeq(s, from, to)

includes(s, p) ==
  \E i \in 0..(Len(s) - Len(p)) : \A j \in 1..Len(p) : s[i + j] = p[j]

(***************************************************************************)
(* JavaScript values that a request can carry in a field.                  *)
(***************************************************************************)
Undefined == [t |-> "undefined", s |-> <<>>, n |-> 0]

JsNull == [t |-> "null", s |-> <<>>, n |-> 0]

JsNumber(k) == [t |-> "number", s |-> <<>>, n |-> k]

JsString(str) == [t |-> "string", s |-> str, n |-> 0]

Truthy(v) ==
  IF v.t = "string" THEN Len(v.s) > 0
  ELSE IF v.t = "number" THEN v.n # 0
  ELSE FALSE

(***************************************************************************)
(* Errors.                                                                 *)
(***************************************************************************)
NoError == [kind |-> "none", message |-> <<>>, field |-> "", code |-> ""]

ValidationError(message, field) ==
  [kind |-> "ValidationError", message |-> message, field |-> field, code |-> ""]

DuplicateEmailError(email) ==
  [kind |-> "DuplicateEmailError",
   message |-> <<"U", "s", "e", "r", " ", "w", "i", "t", "h", " ", "e", "m", "a", "i", "l", " ", "'">> \o email \o <<"'", " ", "a", "l", "r", "e", "a", "d", "y", " ", "e", "x", "i", "s", "t", "s">>,
   field |-> "", code |-> ""]

UserNotFoundErrorNoId(id) ==
  [kind |-> "UserNotFoundError", message |-> <<"U", "s", "e", "r", " ", "n", "o", "t", " ", "f", "o", "u", "n", "d">>, field |-> "", code |-> ""]

UserNotFoundError(id) ==
  [kind |-> "UserNotFoundError",
   message |-> <<"U", "s", "e", "r", " ", "w", "i", "t", "h", " ", "I", "D", " ", "'">> \o id \o <<"'", " ", "n", "o", "t", " ", "f", "o", "u", "n", "d">>,
   field |-> "", code |-> ""]

JsError(message, code) ==
  [kind |-> "Error", message |-> message, field |-> "", code |-> code]

JsThrown(value) ==
  [kind |-> "thrown", message |-> value, field |-> "", code |-> ""]

MsgNameRequired == <<"N", "a", "m", "e", " ", "i", "s", " ", "r", "e", "q", "u", "i", "r", "e", "d", " ", "a", "n", "d", " ", "m", "u", "s", "t", " ", "b", "e", " ", "a", " ", "s", "t", "r", "i", "n", "g">>

MsgNameEmpty == <<"N", "a", "m", "e", " ", "c", "a", "n", "n", "o", "t", " ", "b", "e", " ", "e", "m", "p", "t", "y">>

MsgNameTooLong == <<"N", "a", "m", "e", " ", "m", "u", "s", "t", " ", "b", "e", " ", "2", "5", "5", " ", "c", "h", "a", "r", "a", "c", "t", "e", "r", "s", " ", "o", "r", " ", "l", "e", "s", "s">>

MsgEmailRequired == <<"E", "m", "a", "i", "l", " ", "i", "s", " ", "r", "e", "q", "u", "i", "r", "e", "d", " ", "a", "n", "d", " ", "m", "u", "s", "t", " ", "b", "e", " ", "a", " ", "s", "t", "r", "i", "n", "g">>

MsgEmailInvalid == <<"E", "m", "a", "i", "l", " ", "m", "u", "s", "t", " ", "b", "e", " ", "a", " ", "v", "a", "l", "i", "d", " ", "e", "m", "a", "i", "l", " ", "a", "d", "d", "r", "e", "s", "s">>

MsgEmailTooLong == <<"E", "m", "a", "i", "l", " ", "m", "u", "s", "t", " ", "b", "e", " ", "2", "5", "5", " ", "c", "h", "a", "r", "a", "c", "t", "e", "r", "s", " ", "o", "r", " ", "l", "e", "s", "s">>

MsgPasswordRequired == <<"P", "a", "s", "s", "w", "o", "r", "d", " ", "i", "s", " ", "r", "e", "q", "u", "i", "r", "e", "d", " ", "a", "n", "d", " ", "m", "u", "s", "t", " ", "b", "e", " ", "a", " ", "s", "t", "r", "i", "n", "g">>

MsgPasswordTooShort == <<"P", "a", "s", "s", "w", "o", "r", "d", " ", "m", "u", "s", "t", " ", "b", "e", " ", "a", "t", " ", "l", "e", "a", "s", "t", " ", "8", " ", "c", "h", "a", "r", "a", "c", "t", "e", "r", "s", " ", "l", "o", "n", "g">>

MsgPasswordTooLong == <<"P", "a", "s", "s", "w", "o", "r", "d", " ", "m", "u", "s", "t", " ", "b", "e", " ", "2", "5", "5", " ", "c", "h", "a", "r", "a", "c", "t", "e", "r", "s", " ", "o", "r", " ", "l", "e", "s", "s">>

MsgIdRequired == <<"U", "s", "e", "r", " ", "I", "D", " ", "i", "s", " ", "r", "e", "q", "u", "i", "r", "e", "d", " ", "a", "n", "d", " ", "m", "u", "s", "t", " ", "b", "e", " ", "a", " ", "s", "t", "r", "i", "n", "g">>

MsgIdInvalid == <<"U", "s", "e", "r", " ", "I", "D", " ", "m", "u", "s", "t", " ", "b", "e", " ", "a", " ", "v", "a", "l", "i", "d", " ", "U", "U", "I", "D">>

MsgNoRows == <<"F", "a", "i", "l", "e", "d", " ", "t", "o", " ", "c", "r", "e", "a", "t", "e", " ", "u", "s", "e", "r", ":", " ", "n", "o", " ", "r", "o", "w", "s", " ", "r", "e", "t", "u", "r", "n", "e", "d", " ", "f", "r", "o", "m", " ", "d", "a", "t", "a", "b", "a", "s", "e">>

(***************************************************************************)
(* Validator.                                                              *)
(***************************************************************************)
hashPassword(password) == <<"sha256">> \o password

isValidEmail(email) ==
  LET n == Len(email)
      ats == {i \in 1..n : email[i] = "@"}
  IN  /\ \A i \in 1..n : email[i] \notin Whitespace
      /\ Cardinality(ats) = 1
      /\ LET p == CHOOSE i \in ats : TRUE
         IN  p > 1 /\ \E q \in (p + 2)..(n - 1) : email[q] = "."

isValidUUIDLoose(id) ==
  /\ Len(id) = 36
  /\ \A i \in 1..36 : id[i] = "-" \/ toLowerCaseChar(id[i]) \in HexDigits

isValidUUID(id) ==
  /\ Len(id) = 36
  /\ \A i \in 1..36 :
       IF i \in {9, 14, 19, 24} THEN id[i] = "-"
       ELSE toLowerCaseChar(id[i]) \in HexDigits

validateUserInputEmailFirst(input) ==
  IF ~Truthy(input.email) \/ input.email.t # "string"
    THEN ValidationError(MsgEmailRequired, "email")
  ELSE IF ~isValidEmail(input.email.s)
    THEN ValidationError(MsgEmailInvalid, "email")
  ELSE IF Len(input.email.s) > MaxFieldLength
    THEN ValidationError(MsgEmailTooLong, "email")
  ELSE IF ~Truthy(input.name) \/ input.name.t # "string"
    THEN ValidationError(MsgNameRequired, "name")
  ELSE IF Len(trim(input.name.s)) = 0
    THEN ValidationError(MsgNameEmpty, "name")
  ELSE IF Len(input.name.s) > MaxFieldLength
    THEN ValidationError(MsgNameTooLong, "name")
  ELSE IF ~Truthy(input.password) \/ input.password.t # "string"
    THEN ValidationError(MsgPasswordRequired, "password")
  ELSE IF Len(input.password.s) < MinPasswordLength
    THEN ValidationError(MsgPasswordTooShort, "password")
  ELSE IF Len(input.password.s) > MaxFieldLength
    THEN ValidationError(MsgPasswordTooLong, "password")
  ELSE NoError

validateUserInputTrimmedLength(input) ==
  IF ~Truthy(input.name) \/ input.name.t # "string"
    THEN ValidationError(MsgNameRequired, "name")
  ELSE IF Len(trim(input.name.s)) = 0
    THEN ValidationError(MsgNameEmpty, "name")
  ELSE IF Len(trim(input.name.s)) > MaxFieldLength
    THEN ValidationError(MsgNameTooLong, "name")
  ELSE IF ~Truthy(input.email) \/ input.email.t # "string"
    THEN ValidationError(MsgEmailRequired, "email")
  ELSE IF ~isValidEmail(input.email.s)
    THEN ValidationError(MsgEmailInvalid, "email")
  ELSE IF Len(input.email.s) > MaxFieldLength
    THEN ValidationError(MsgEmailTooLong, "email")
  ELSE IF ~Truthy(input.password) \/ input.password.t # "string"
    THEN ValidationError(MsgPasswordRequired, "password")
  ELSE IF Len(input.password.s) < MinPasswordLength
    THEN ValidationError(MsgPasswordTooShort, "password")
  ELSE IF Len(input.password.s) > MaxFieldLength
    THEN ValidationError(MsgPasswordTooLong, "password")
  ELSE NoError

validateUserInput(input) ==
  IF ~Truthy(input.name) \/ input.name.t # "string"
    THEN ValidationError(MsgNameRequired, "name")
  ELSE IF Len(trim(input.name.s)) = 0
    THEN ValidationError(MsgNameEmpty, "name")
  ELSE IF Len(input.name.s) > MaxFieldLength
    THEN ValidationError(MsgNameTooLong, "name")
  ELSE IF ~Truthy(input.email) \/ input.email.t # "string"
    THEN ValidationError(MsgEmailRequired, "email")
  ELSE IF ~isValidEmail(input.email.s)
    THEN ValidationError(MsgEmailInvalid, "email")
  ELSE IF Len(input.email.s) > MaxFieldLength
    THEN ValidationError(MsgEmailTooLong, "email")
  ELSE IF ~Truthy(input.password) \/ input.password.t # "string"
    THEN ValidationError(MsgPasswordRequired, "password")
  ELSE IF Len(input.password.s) < MinPasswordLength
    THEN ValidationError(MsgPasswordTooShort, "password")
  ELSE IF Len(input.password.s) > MaxFieldLength
    THEN ValidationError(MsgPasswordTooLong, "password")
  ELSE NoError

validateId(id) ==
  IF ~Truthy(id) \/ id.t # "string"
    THEN ValidationError(MsgIdRequired, "id")
  ELSE IF ~isValidUUID(id.s)
    THEN ValidationError(MsgIdInvalid, "id")
  ELSE NoError

(***************************************************************************)
(* The users table and the statements the service sends to it.  A row is   *)
(* [id, name, email, password, created_at, updated_at]; the email column   *)
(* is unique and the id column is a UUID primary key assigned on insert.   *)
(***************************************************************************)
Digits == <<"1", "2", "3", "4", "5", "6", "7", "8", "9">>

NewUuid(k) == <<"0", "0", "0", "0", "0", "0", "0", "0", "-", "0", "0", "0", "0", "-", "4", "0", "0", "0", "-", "8", "0", "0", "0", "-", "0", "0", "0", "0", "0", "0", "0", "0", "0", "0", "0">> \o <<Digits[k]>>

MsgConnect == <<"c", "o", "n", "n", "e", "c", "t", " ", "E", "C", "O", "N", "N", "R", "E", "F", "U", "S", "E", "D">>

MsgUnique == <<"d", "u", "p", "l", "i", "c", "a", "t", "e", " ", "k", "e", "y", " ", "v", "a", "l", "u", "e", " ", "v", "i", "o", "l", "a", "t", "e", "s", " ", "u", "n", "i", "q", "u", "e", " ", "c", "o", "n", "s", "t", "r", "a", "i", "n", "t">>

MsgUnreachable == <<"g", "e", "t", "a", "d", "d", "r", "i", "n", "f", "o", " ", "E", "N", "O", "T", "F", "O", "U", "N", "D", " ", "d", "b">>

MsgUnexpected == <<"U", "n", "e", "x", "p", "e", "c", "t", "e", "d", " ", "d", "a", "t", "a", "b", "a", "s", "e", " ", "e", "r", "r", "o", "r">>

MsgThrown == <<"q", "u", "e", "r", "y", " ", "a", "b", "o", "r", "t", "e", "d">>

Faults == {"none", "connect", "unreachable", "unexpected", "thrown", "norows"}

ThrowingFaults == {"connect", "unreachable", "unexpected", "thrown"}

FaultsOf(op) == IF op = "create" THEN Faults ELSE Faults \ {"norows"}

TransportFaults == {"connect", "unreachable"}

FaultError(fault) ==
  IF fault = "connect" THEN JsError(MsgConnect, "ECONNREFUSED")
  ELSE IF fault = "unreachable" THEN JsError(MsgUnreachable, "ENOTFOUND")
  ELSE IF fault = "unexpected" THEN JsError(MsgUnexpected, "")
  ELSE IF fault = "thrown" THEN JsThrown(MsgThrown)
  ELSE NoError

QueryResult(error, rows, rowCount, db, n) ==
  [error |-> error, rows |-> rows, rowCount |-> rowCount, users |-> db, allocated |-> n]

Returning(row) ==
  [id |-> row.id, name |-> row.name, email |-> row.email,
   created_at |-> row.created_at, updated_at |-> row.updated_at]

poolQuery(text, params, db, n, fault) ==
  IF fault \in ThrowingFaults
    THEN QueryResult(FaultError(fault), <<>>, 0, db, n)
  ELSE IF fault = "norows"
    THEN QueryResult(NoError, <<>>, 0, db, n)
  ELSE IF text = "INSERT"
    THEN IF \E u \in db : u.email = params[2]
           THEN QueryResult(JsError(MsgUnique, "23505"), <<>>, 0, db, n)
           ELSE LET row == [id |-> NewUuid(n + 1), name |-> params[1],
                            email |-> params[2], password |-> params[3],
                            created_at |-> n + 1, updated_at |-> n + 1]
                IN  QueryResult(NoError, <<Returning(row)>>, 1, db \cup {row}, n + 1)
  ELSE LET hit == {u \in db : u.id = toLowerCase(params[1])}
       IN  IF text = "SELECT"
             THEN QueryResult(NoError,
                              IF hit = {} THEN <<>>
                              ELSE <<Returning(CHOOSE u \in hit : TRUE)>>,
                              Cardinality(hit), db, n)
             ELSE QueryResult(NoError, <<>>, Cardinality(hit), db \ hit, n)

query(text, params, db, n, fault) == poolQuery(text, params, db, n, fault)

(***************************************************************************)
(* User operations.  Each takes the table, the number of identifiers the   *)
(* store has assigned and the fault the store shows to this call, and      *)
(* yields what the call throws or returns and the table it leaves.         *)
(***************************************************************************)
NoUser == [id |-> <<>>, name |-> <<>>, email |-> <<>>, created_at |-> 0, updated_at |-> 0]

Outcome(error, user, db, n, queries) ==
  [error |-> error, user |-> user, users |-> db, allocated |-> n, queries |-> queries]

createUserCatchWrapped(error, input) ==
  IF error.code = "23505" THEN DuplicateEmailError(input.email.s)
  ELSE IF error.kind = "ValidationError" THEN error
  ELSE JsError(<<"F", "a", "i", "l", "e", "d", " ", "t", "o", " ", "c", "r", "e", "a", "t", "e", " ", "u", "s", "e", "r">>, "")

createUserCatchNormalizedEmail(error, input) ==
  IF error.code = "23505" THEN DuplicateEmailError(trim(toLowerCase(input.email.s)))
  ELSE error

createUserCatch(error, input) ==
  IF error.code = "23505" THEN DuplicateEmailError(input.email.s)
  ELSE error

insertParamsNoLowerCase(input) ==
  <<trim(input.name.s), trim(input.email.s), hashPassword(input.password.s)>>

insertParamsNoTrim(input) ==
  <<input.name.s, toLowerCase(input.email.s), hashPassword(input.password.s)>>

insertParamsPlaintext(input) ==
  <<trim(input.name.s), trim(toLowerCase(input.email.s)), input.password.s>>

insertParams(input) ==
  <<trim(input.name.s), trim(toLowerCase(input.email.s)), hashPassword(input.password.s)>>

createUserRetried(input, db, n, fault) ==
  LET invalid == validateUserInput(input)
  IN  IF invalid # NoError
        THEN Outcome(createUserCatch(invalid, input), NoUser, db, n, 0)
      ELSE LET result == query("INSERT", insertParams(input), db, n, fault)
           IN  IF result.error # NoError
                 THEN LET again == query("INSERT", insertParams(input), db, n, fault)
                      IN  Outcome(createUserCatch(again.error, input), NoUser,
                                  again.users, again.allocated, 2)
               ELSE IF Len(result.rows) = 0
                 THEN Outcome(createUserCatch(JsError(MsgNoRows, ""), input), NoUser,
                              result.users, result.allocated, 1)
               ELSE Outcome(NoError, result.rows[1], result.users, result.allocated, 1)

createUserNoRowsCheck(input, db, n, fault) ==
  LET invalid == validateUserInput(input)
  IN  IF invalid # NoError
        THEN Outcome(createUserCatch(invalid, input), NoUser, db, n, 0)
      ELSE LET result == query("INSERT", insertParams(input), db, n, fault)
           IN  IF result.error # NoError
                 THEN Outcome(createUserCatch(result.error, input), NoUser,
                              result.users, result.allocated, 1)
               ELSE Outcome(NoError,
                            IF Len(result.rows) = 0 THEN NoUser ELSE result.rows[1],
                            result.users, result.allocated, 1)

createUser(input, db, n, fault) ==
  LET invalid == validateUserInput(input)
  IN  IF invalid # NoError
        THEN Outcome(createUserCatch(invalid, input), NoUser, db, n, 0)
      ELSE LET result == query("INSERT", insertParams(input), db, n, fault)
           IN  IF result.error # NoError
                 THEN Outcome(createUserCatch(result.error, input), NoUser,
                              result.users, result.allocated, 1)
               ELSE IF Len(result.rows) = 0
                 THEN Outcome(createUserCatch(JsError(MsgNoRows, ""), input), NoUser,
                              result.users, result.allocated, 1)
               ELSE Outcome(NoError, result.rows[1], result.users, result.allocated, 1)

deleteUserByIdNoRowCountCheck(id, db, n, fault) ==
  LET invalid == validateId(id)
  IN  IF invalid # NoError
        THEN Outcome(invalid, NoUser, db, n, 0)
      ELSE LET result == query("DELETE", <<id.s>>, db, n, fault)
           IN  IF result.error # NoError
                 THEN Outcome(result.error, NoUser, result.users, result.allocated, 1)
               ELSE Outcome(NoError, NoUser, result.users, result.allocated, 1)

deleteUserByIdInvertedRowCount(id, db, n, fault) ==
  LET invalid == validateId(id)
  IN  IF invalid # NoError
        THEN Outcome(invalid, NoUser, db, n, 0)
      ELSE LET result == query("DELETE", <<id.s>>, db, n, fault)
           IN  IF result.error # NoError
                 THEN Outcome(result.error, NoUser, result.users, result.allocated, 1)
               ELSE IF result.rowCount # 0
                 THEN Outcome(UserNotFoundError(id.s), NoUser,
                              result.users, result.allocated, 1)
               ELSE Outcome(NoError, NoUser, result.users, result.allocated, 1)

deleteUserById(id, db, n, fault) ==
  LET invalid == validateId(id)
  IN  IF invalid # NoError
        THEN Outcome(invalid, NoUser, db, n, 0)
      ELSE LET result == query("DELETE", <<id.s>>, db, n, fault)
           IN  IF result.error # NoError
                 THEN Outcome(result.error, NoUser, result.users, result.allocated, 1)
               ELSE IF result.rowCount = 0
                 THEN Outcome(UserNotFoundError(id.s), NoUser,
                              result.users, result.allocated, 1)
               ELSE Outcome(NoError, NoUser, result.users, result.allocated, 1)

getUserByIdNoRowsCheck(id, db, n, fault) ==
  LET invalid == validateId(id)
  IN  IF invalid # NoError
        THEN Outcome(invalid, NoUser, db, n, 0)
      ELSE LET result == query("SELECT", <<id.s>>, db, n, fault)
           IN  IF result.error # NoError
                 THEN Outcome(result.error, NoUser, result.users, result.allocated, 1)
               ELSE Outcome(NoError,
                            IF Len(result.rows) = 0 THEN NoUser ELSE result.rows[1],
                            result.users, result.allocated, 1)

getUserById(id, db, n, fault) ==
  LET invalid == validateId(id)
  IN  IF invalid # NoError
        THEN Outcome(invalid, NoUser, db, n, 0)
      ELSE LET result == query("SELECT", <<id.s>>, db, n, fault)
           IN  IF result.error # NoError
                 THEN Outcome(result.error, NoUser, result.users, result.allocated, 1)
               ELSE IF Len(result.rows) = 0
                 THEN Outcome(UserNotFoundError(id.s), NoUser,
                              result.users, result.allocated, 1)
               ELSE Outcome(NoError, result.rows[1], result.users, result.allocated, 1)

(***************************************************************************)
(* Error mapper and HTTP routes.                                           *)
(***************************************************************************)
Response(status, body) == [status |-> status, body |-> body]

NoResponse == Response(0, [none |-> TRUE])

toISOString(date) == [iso |-> date]

handleUserRouteErrorConnectFirst(error, operation) ==
  IF includes(error.message, <<"c", "o", "n", "n", "e", "c", "t">>)
    THEN Response(503, [status |-> "error", error |-> "database_unavailable",
                        message |-> <<"U", "n", "a", "b", "l", "e", " ", "t", "o", " ", "c", "o", "n", "n", "e", "c", "t", " ", "t", "o", " ", "d", "a", "t", "a", "b", "a", "s", "e">>,
                        details |-> error.message])
  ELSE IF error.kind = "ValidationError"
    THEN Response(400, [status |-> "error", error |-> "validation_error",
                        message |-> error.message, field |-> error.field])
  ELSE IF error.kind = "DuplicateEmailError"
    THEN Response(409, [status |-> "error", error |-> "duplicate_email",
                        message |-> error.message, field |-> "email"])
  ELSE IF error.kind = "UserNotFoundError"
    THEN Response(404, [status |-> "error", error |-> "user_not_found",
                        message |-> error.message])
  ELSE Response(500, [status |-> "error", error |-> "internal_server_error",
                      message |-> <<"A", "n", " ", "u", "n", "e", "x", "p", "e", "c", "t", "e", "d", " ", "e", "r", "r", "o", "r", " ", "o", "c", "c", "u", "r", "r", "e", "d", " ", "w", "h", "i", "l", "e", " ">> \o operation,
                      details |-> error.message])

handleUserRouteErrorGenericMessage(error, operation) ==
  IF error.kind = "ValidationError"
    THEN Response(400, [status |-> "error", error |-> "validation_error",
                        message |-> error.message, field |-> error.field])
  ELSE IF error.kind = "DuplicateEmailError"
    THEN Response(409, [status |-> "error", error |-> "duplicate_email",
                        message |-> error.message, field |-> "email"])
  ELSE IF error.kind = "UserNotFoundError"
    THEN Response(404, [status |-> "error", error |-> "user_not_found",
                        message |-> error.message])
  ELSE IF error.kind = "Error" /\ includes(error.message, <<"c", "o", "n", "n", "e", "c", "t">>)
    THEN Response(503, [status |-> "error", error |-> "database_unavailable",
                        message |-> <<"U", "n", "a", "b", "l", "e", " ", "t", "o", " ", "c", "o", "n", "n", "e", "c", "t", " ", "t", "o", " ", "d", "a", "t", "a", "b", "a", "s", "e">>,
                        details |-> error.message])
  ELSE Response(500, [status |-> "error", error |-> "internal_server_error",
                      message |-> <<"A", "n", " ", "u", "n", "e", "x", "p", "e", "c", "t", "e", "d", " ", "e", "r", "r", "o", "r", " ", "o", "c", "c", "u", "r", "r", "e", "d">>,
                      details |-> error.message])

handleUserRouteErrorUnknownUnanswered(error, operation) ==
  IF error.kind = "ValidationError"
    THEN Response(400, [status |-> "error", error |-> "validation_error",
                        message |-> error.message, field |-> error.field])
  ELSE IF error.kind = "DuplicateEmailError"
    THEN Response(409, [status |-> "error", error |-> "duplicate_email",
                        message |-> error.message, field |-> "email"])
  ELSE IF error.kind = "UserNotFoundError"
    THEN Response(404, [status |-> "error", error |-> "user_not_found",
                        message |-> error.message])
  ELSE IF error.kind = "Error" /\ includes(error.message, <<"c", "o", "n", "n", "e", "c", "t">>)
    THEN Response(503, [status |-> "error", error |-> "database_unavailable",
                        message |-> <<"U", "n", "a", "b", "l", "e", " ", "t", "o", " ", "c", "o", "n", "n", "e", "c", "t", " ", "t", "o", " ", "d", "a", "t", "a", "b", "a", "s", "e">>,
                        details |-> error.message])
  ELSE NoResponse

handleUserRouteError(error, operation) ==
  IF error.kind = "ValidationError"
    THEN Response(400, [status |-> "error", error |-> "validation_error",
                        message |-> error.message, field |-> error.field])
  ELSE IF error.kind = "DuplicateEmailError"
    THEN Response(409, [status |-> "error", error |-> "duplicate_email",
                        message |-> error.message, field |-> "email"])
  ELSE IF error.kind = "UserNotFoundError"
    THEN Response(404, [status |-> "error", error |-> "user_not_found",
                        message |-> error.message])
  ELSE IF error.kind = "Error" /\ includes(error.message, <<"c", "o", "n", "n", "e", "c", "t">>)
    THEN Response(503, [status |-> "error", error |-> "database_unavailable",
                        message |-> <<"U", "n", "a", "b", "l", "e", " ", "t", "o", " ", "c", "o", "n", "n", "e", "c", "t", " ", "t", "o", " ", "d", "a", "t", "a", "b", "a", "s", "e">>,
                        details |-> error.message])
  ELSE Response(500, [status |-> "error", error |-> "internal_server_error",
                      message |-> <<"A", "n", " ", "u", "n", "e", "x", "p", "e", "c", "t", "e", "d", " ", "e", "r", "r", "o", "r", " ", "o", "c", "c", "u", "r", "r", "e", "d", " ", "w", "h", "i", "l", "e", " ">> \o operation,
                      details |-> error.message])

UserDataNoUpdatedAt(user) ==
  [id |-> user.id, name |-> user.name, email |-> user.email,
   created_at |-> toISOString(user.created_at)]

UserData(user) ==
  [id |-> user.id, name |-> user.name, email |-> user.email,
   created_at |-> toISOString(user.created_at),
   updated_at |-> toISOString(user.updated_at)]

BodyField(body, key) == IF body.kind = "object" THEN body[key] ELSE Undefined

Handled(response, invoked, out) ==
  [response |-> response,
   responses |-> IF response = NoResponse THEN <<>> ELSE <<response>>,
   invoked |-> invoked, out |-> out]

postUsersEchoesInput(body, db, n, fault) ==
  LET input == [name |-> BodyField(body, "name"), email |-> BodyField(body, "email"),
                password |-> BodyField(body, "password")]
  IN  IF body.kind \notin {"object", "array"}
        THEN Handled(Response(400, [status |-> "error", error |-> "invalid_request",
                                    message |-> <<"R", "e", "q", "u", "e", "s", "t", " ", "b", "o", "d", "y", " ", "m", "u", "s", "t", " ", "b", "e", " ", "a", " ", "J", "S", "O", "N", " ", "o", "b", "j", "e", "c", "t">>,
                                    field |-> "body"]),
                     FALSE, Outcome(NoError, NoUser, db, n, 0))
      ELSE LET out == createUser(input, db, n, fault)
           IN  IF out.error # NoError
                 THEN Handled(handleUserRouteError(out.error, <<"c", "r", "e", "a", "t", "i", "n", "g", " ", "u", "s", "e", "r">>), TRUE, out)
                 ELSE Handled(Response(201, [status |-> "success",
                                             data |-> [id |-> out.user.id,
                                                       name |-> input.name.s,
                                                       email |-> input.email.s,
                                                       password |-> input.password.s,
                                                       created_at |-> toISOString(out.user.created_at),
                                                       updated_at |-> toISOString(out.user.updated_at)]]),
                              TRUE, out)

postUsers(body, db, n, fault) ==
  LET input == [name |-> BodyField(body, "name"), email |-> BodyField(body, "email"),
                password |-> BodyField(body, "password")]
  IN  IF body.kind \notin {"object", "array"}
        THEN Handled(Response(400, [status |-> "error", error |-> "invalid_request",
                                    message |-> <<"R", "e", "q", "u", "e", "s", "t", " ", "b", "o", "d", "y", " ", "m", "u", "s", "t", " ", "b", "e", " ", "a", " ", "J", "S", "O", "N", " ", "o", "b", "j", "e", "c", "t">>,
                                    field |-> "body"]),
                     FALSE, Outcome(NoError, NoUser, db, n, 0))
      ELSE LET out == createUser(input, db, n, fault)
           IN  IF out.error # NoError
                 THEN Handled(handleUserRouteError(out.error, <<"c", "r", "e", "a", "t", "i", "n", "g", " ", "u", "s", "e", "r">>), TRUE, out)
                 ELSE Handled(Response(201, [status |-> "success", data |-> UserData(out.user)]),
                              TRUE, out)

getUser(id, db, n, fault) ==
  IF ~Truthy(id)
    THEN Handled(Response(400, [status |-> "error", error |-> "validation_error",
                                message |-> <<"U", "s", "e", "r", " ", "I", "D", " ", "i", "s", " ", "r", "e", "q", "u", "i", "r", "e", "d">>, field |-> "id"]),
                 FALSE, Outcome(NoError, NoUser, db, n, 0))
  ELSE LET out == getUserById(id, db, n, fault)
       IN  IF out.error # NoError
             THEN Handled(handleUserRouteError(out.error, <<"r", "e", "t", "r", "i", "e", "v", "i", "n", "g", " ", "u", "s", "e", "r">>), TRUE, out)
             ELSE Handled(Response(200, [status |-> "success", data |-> UserData(out.user)]),
                          TRUE, out)

deleteUserAlways204(id, db, n, fault) ==
  IF ~Truthy(id)
    THEN Handled(Response(400, [status |-> "error", error |-> "validation_error",
                                message |-> <<"U", "s", "e", "r", " ", "I", "D", " ", "i", "s", " ", "r", "e", "q", "u", "i", "r", "e", "d">>, field |-> "id"]),
                 FALSE, Outcome(NoError, NoUser, db, n, 0))
  ELSE LET out == deleteUserById(id, db, n, fault)
       IN  IF out.error # NoError /\ out.error.kind # "UserNotFoundError"
             THEN Handled(handleUserRouteError(out.error, <<"d", "e", "l", "e", "t", "i", "n", "g", " ", "u", "s", "e", "r">>), TRUE, out)
             ELSE Handled(Response(204, [empty |-> TRUE]), TRUE, out)

deleteUser(id, db, n, fault) ==
  IF ~Truthy(id)
    THEN Handled(Response(400, [status |-> "error", error |-> "validation_error",
                                message |-> <<"U", "s", "e", "r", " ", "I", "D", " ", "i", "s", " ", "r", "e", "q", "u", "i", "r", "e", "d">>, field |-> "id"]),
                 FALSE, Outcome(NoError, NoUser, db, n, 0))
  ELSE LET out == deleteUserById(id, db, n, fault)
       IN  IF out.error # NoError
             THEN Handled(handleUserRouteError(out.error, <<"d", "e", "l", "e", "t", "i", "n", "g", " ", "u", "s", "e", "r">>), TRUE, out)
             ELSE Handled(Response(204, [empty |-> TRUE]), TRUE, out)

healthCheckPingsStore(db, n, fault) ==
  LET result == query("SELECT", <<NewUuid(1)>>, db, n, fault)
  IN  IF result.error # NoError
        THEN Handled(Response(500, [status |-> "error", error |-> "health_check_failed",
                                    message |-> <<"H", "e", "a", "l", "t", "h", " ", "c", "h", "e", "c", "k", " ", "e", "n", "d", "p", "o", "i", "n", "t", " ", "e", "n", "c", "o", "u", "n", "t", "e", "r", "e", "d", " ", "a", "n", " ", "e", "r", "r", "o", "r">>,
                                    details |-> result.error.message]),
                     FALSE, Outcome(NoError, NoUser, db, n, 1))
        ELSE Handled(Response(200, [status |-> "ok", timestamp |-> toISOString(n),
                                    service |-> "api"]),
                     FALSE, Outcome(NoError, NoUser, db, n, 1))

healthCheck(db, n, fault) ==
  Handled(Response(200, [status |-> "ok", timestamp |-> toISOString(n), service |-> "api"]),
          FALSE, Outcome(NoError, NoUser, db, n, 0))
(***************************************************************************)
(* Requests and calls.                                                     *)
(***************************************************************************)
NoBody == [kind |-> "none", name |-> Undefined, email |-> Undefined, password |-> Undefined]

ObjectBody(name, email, password) ==
  [kind |-> "object", name |-> name, email |-> email, password |-> password]

ArrayBody == [kind |-> "array", name |-> Undefined, email |-> Undefined, password |-> Undefined]

MalformedBody ==
  [kind |-> "malformed", name |-> Undefined, email |-> Undefined, password |-> Undefined]

TooLargeBody ==
  [kind |-> "tooLarge", name |-> Undefined, email |-> Undefined, password |-> Undefined]

Request(op, body, id) == [op |-> op, body |-> body, id |-> id]

UnassignedUuid == <<"1", "2", "3", "e", "4", "5", "6", "7", "-", "e", "8", "9", "b", "-", "1", "2", "d", "3", "-", "a", "4", "5", "6", "-", "4", "2", "6", "6", "1", "4", "1", "7", "4", "0", "0", "0">>

UnassignedUuidUpper == <<"1", "2", "3", "E", "4", "5", "6", "7", "-", "E", "8", "9", "B", "-", "1", "2", "D", "3", "-", "A", "4", "5", "6", "-", "4", "2", "6", "6", "1", "4", "1", "7", "4", "0", "0", "0">>

AssignableUuids == {NewUuid(k) : k \in 1..MaxInserts}

HttpNames == {JsString(<<"A", "l">>), JsString(<<>>)}

HttpEmails ==
  {JsString(<<"a", "@", "b", ".", "c">>), JsString(<<"A", "@", "B", ".", "C">>), JsString(<<" ", "a", "@", "b", ".", "c">>), JsString(<<"c", "o", "n", "n", "e", "c", "t", "@", "b", ".", "c">>)}

HttpPasswords == {JsString(<<"p", "a", "s", "s", "w", "o", "r", "d">>)}

HttpBodies ==
  {b \in {ObjectBody(nm, em, pw) :
             nm \in HttpNames, em \in HttpEmails, pw \in HttpPasswords} :
     b.name = JsString(<<"A", "l">>) \/ b.email = JsString(<<"a", "@", "b", ".", "c">>)}
    \cup {ArrayBody, MalformedBody, TooLargeBody}

NodeEnvs == {"development", "production"}

HttpIds ==
  {JsString(s) : s \in AssignableUuids \cup
                       {UnassignedUuidUpper, <<"n", "o", "t", "-", "a", "-", "v", "a", "l", "i", "d", "-", "u", "u", "i", "d">>}}

HttpTargets ==
  {[body |-> NoBody, id |-> id] : id \in HttpIds}
    \cup {[body |-> MalformedBody, id |-> JsString(NewUuid(1))]}

CallNames ==
  {Undefined, JsNull, JsNumber(42), JsString(<<>>), JsString(<<" ">>), JsString(<<"A", "l">>),
   JsString(<<" ", "A", "l", " ">>), JsString(Repeat("a", MaxFieldLength)),
   JsString(Repeat("a", MaxFieldLength + 1)),
   JsString(Repeat(" ", MaxFieldLength - 1) \o <<"A", "l">>)}

CallEmails ==
  {Undefined, JsNumber(0), JsString(<<>>), JsString(<<"b", "a", "d">>), JsString(<<"a", "@", "b">>),
   JsString(<<"a", "@", "b", ".", "c">>), JsString(<<"A", "@", "B", ".", "C">>), JsString(<<" ", "a", "@", "b", ".", "c", " ">>), JsString(<<"z", "@", "b", ".", "c">>),
   JsString(Repeat("a", MaxFieldLength - 3) \o <<"@", "b", ".", "c">>)}

CallPasswords ==
  {Undefined, JsString(<<"s", "h", "o", "r", "t">>), JsString(<<"p", "a", "s", "s", "w", "o", "r">>), JsString(<<"p", "a", "s", "s", "w", "o", "r", "d">>),
   JsString(Repeat("p", MaxFieldLength + 1))}

CallIds ==
  {Undefined, JsNull, JsNumber(7), JsString(<<>>)}
    \cup {JsString(s) : s \in AssignableUuids \cup
            {UnassignedUuid, UnassignedUuidUpper, <<"n", "o", "t", "-", "a", "-", "v", "a", "l", "i", "d", "-", "u", "u", "i", "d">>,
             <<"1", "2", "3", "e", "4", "5", "6", "7", "-", "e", "8", "9", "b", "-", "1", "2", "d", "3", "-", "a", "4", "5", "6", "-", "4", "2", "6", "6", "1", "4", "1", "7", "4", "0", "0">>,
             <<"1", "2", "3", "e", "4", "5", "6", "7", "-", "e", "8", "9", "b", "-", "1", "2", "d", "3", "-", "a", "4", "5", "6", "-", "4", "2", "6", "6", "1", "4", "1", "7", "4", "0", "0", "g">>,
             <<"1", "2", "3", "e", "4", "5", "6", "7", "a", "e", "8", "9", "b", "-", "1", "2", "d", "3", "-", "a", "4", "5", "6", "-", "4", "2", "6", "6", "1", "4", "1", "7", "4", "0", "0", "0">>}}

Handle(req, db, n, fault) ==
  IF req.op = "create" THEN postUsers(req.body, db, n, fault)
  ELSE IF req.op = "fetch" THEN getUser(req.id, db, n, fault)
  ELSE IF req.op = "health" THEN healthCheck(db, n, fault)
  ELSE deleteUser(req.id, db, n, fault)

MsgJsonSyntax == <<"U", "n", "e", "x", "p", "e", "c", "t", "e", "d", " ", "t", "o", "k", "e", "n", " ", "i", " ", "i", "n", " ", "J", "S", "O", "N", " ", "a", "t", " ", "p", "o", "s", "i", "t", "i", "o", "n", " ", "1">>

MsgTooLarge == <<"r", "e", "q", "u", "e", "s", "t", " ", "e", "n", "t", "i", "t", "y", " ", "t", "o", "o", " ", "l", "a", "r", "g", "e">>

expressJson(body) ==
  IF body.kind = "malformed"
    THEN [kind |-> "SyntaxError", message |-> MsgJsonSyntax, field |-> "", code |-> "",
          body |-> TRUE]
  ELSE IF body.kind = "tooLarge"
    THEN [kind |-> "Error", message |-> MsgTooLarge, field |-> "", code |-> "",
          body |-> FALSE]
  ELSE [kind |-> "none", message |-> <<>>, field |-> "", code |-> "", body |-> FALSE]

jsonParsingErrorHandler(err) ==
  Response(400, [error |-> "invalid_json",
                 message |-> <<"R", "e", "q", "u", "e", "s", "t", " ", "b", "o", "d", "y", " ", "c", "o", "n", "t", "a", "i", "n", "s", " ", "i", "n", "v", "a", "l", "i", "d", " ", "J", "S", "O", "N">>,
                 details |-> err.message])

globalErrorHandler(err, env) ==
  IF env = "development"
    THEN Response(500, [error |-> "internal_server_error",
                        message |-> <<"A", "n", " ", "u", "n", "e", "x", "p", "e", "c", "t", "e", "d", " ", "e", "r", "r", "o", "r", " ", "o", "c", "c", "u", "r", "r", "e", "d">>,
                        details |-> err.message])
    ELSE Response(500, [error |-> "internal_server_error",
                        message |-> <<"A", "n", " ", "u", "n", "e", "x", "p", "e", "c", "t", "e", "d", " ", "e", "r", "r", "o", "r", " ", "o", "c", "c", "u", "r", "r", "e", "d">>])

appWithoutJsonHandler(req, db, n, fault, env) ==
  LET err == expressJson(req.body)
  IN  IF err.kind # "none"
        THEN Handled(globalErrorHandler(err, env), FALSE, Outcome(NoError, NoUser, db, n, 0))
      ELSE Handle(req, db, n, fault)

app(req, db, n, fault, env) ==
  LET err == expressJson(req.body)
  IN  IF err.kind = "SyntaxError" /\ err.body
        THEN Handled(jsonParsingErrorHandler(err), FALSE, Outcome(NoError, NoUser, db, n, 0))
      ELSE IF err.kind # "none"
        THEN Handled(globalErrorHandler(err, env), FALSE, Outcome(NoError, NoUser, db, n, 0))
      ELSE Handle(req, db, n, fault)

Call(req, db, n, fault) ==
  IF req.op = "create"
    THEN Handled(NoResponse, TRUE,
                 createUser([name |-> req.body.name, email |-> req.body.email,
                             password |-> req.body.password], db, n, fault))
  ELSE IF req.op = "fetch" THEN Handled(NoResponse, TRUE, getUserById(req.id, db, n, fault))
  ELSE Handled(NoResponse, TRUE, deleteUserById(req.id, db, n, fault))

Completed(via, req, h, db, fault) ==
  LET out == h.out IN
  [via |-> via, op |-> req.op, body |-> req.body, id |-> req.id,
   fault |-> IF out.queries > 0 THEN fault ELSE "none",
   error |-> out.error, user |-> out.user, queries |-> out.queries,
   invoked |-> h.invoked, response |-> h.response, sent |-> Len(h.responses),
   pre |-> db, preAllocated |-> allocated]

NothingYet ==
  [via |-> "none", op |-> "none", body |-> NoBody, id |-> Undefined, fault |-> "none",
   error |-> NoError, user |-> NoUser, queries |-> 0,
   invoked |-> FALSE, response |-> NoResponse, sent |-> 0,
   pre |-> {}, preAllocated |-> 0]

Finish(via, req, handled, fault) ==
  LET h == handled
      out == h.out
  IN  /\ last = NothingYet
      /\ out.allocated <= MaxInserts
      /\ users' = out.users
      /\ allocated' = out.allocated
      /\ last' = Completed(via, req, h, users, fault)
      /\ everCreated' =
           IF req.op = "create" /\ h.invoked /\ out.error = NoError
             THEN everCreated \cup {[id |-> out.user.id, name |-> out.user.name,
                                     email |-> out.user.email,
                                     created_at |-> out.user.created_at]}
             ELSE everCreated
      /\ deleted' =
           IF req.op = "delete" /\ h.invoked /\ out.error = NoError
             THEN deleted \cup {toLowerCase(req.id.s)}
             ELSE deleted

Suspends(req) == app(req, users, allocated, "none", "production").out.queries > 0

Receive(req) ==
  IF Suspends(req)
    THEN /\ last = NothingYet
         /\ BagCardinality(inflight) < MaxInFlight
         /\ inflight' = inflight (+) SetToBag({req})
         /\ UNCHANGED <<users, allocated, last, everCreated, deleted>>
    ELSE /\ \E env \in NodeEnvs :
              Finish("http", req, app(req, users, allocated, "none", env), "none")
         /\ UNCHANGED inflight

PostUsers ==
  /\ last = NothingYet
  /\ UNCHANGED connVars
  /\ \E body \in HttpBodies : Receive(Request("create", body, Undefined))

GetUser ==
  /\ last = NothingYet
  /\ UNCHANGED connVars
  /\ \E t \in HttpTargets : Receive(Request("fetch", t.body, t.id))

DeleteUser ==
  /\ last = NothingYet
  /\ UNCHANGED connVars
  /\ \E t \in HttpTargets : Receive(Request("delete", t.body, t.id))

HealthCheck ==
  /\ last = NothingYet
  /\ UNCHANGED connVars
  /\ \E body \in {NoBody, MalformedBody} : Receive(Request("health", body, Undefined))

Resume ==
  /\ last = NothingYet
  /\ UNCHANGED connVars
  /\ \E req \in BagToSet(inflight), fault \in Faults :
       /\ fault \in FaultsOf(req.op)
       /\ Finish("http", req, app(req, users, allocated, fault, "production"), fault)
       /\ inflight' = inflight (-) SetToBag({req})

Deliver ==
  /\ last # NothingYet
  /\ UNCHANGED connVars
  /\ last' = NothingYet
  /\ UNCHANGED <<users, allocated, inflight, everCreated, deleted>>

CallCreateUser ==
  /\ last = NothingYet
  /\ UNCHANGED connVars
  /\ \E nm \in CallNames, em \in CallEmails, pw \in CallPasswords, fault \in FaultsOf("create") :
       LET req == Request("create", ObjectBody(nm, em, pw), Undefined)
       IN  /\ Finish("direct", req, Call(req, users, allocated, fault), fault)
           /\ UNCHANGED inflight

CallGetUserById ==
  /\ last = NothingYet
  /\ UNCHANGED connVars
  /\ \E id \in CallIds, fault \in FaultsOf("fetch") :
       LET req == Request("fetch", NoBody, id)
       IN  /\ Finish("direct", req, Call(req, users, allocated, fault), fault)
           /\ UNCHANGED inflight

CallDeleteUserById ==
  /\ last = NothingYet
  /\ UNCHANGED connVars
  /\ \E id \in CallIds, fault \in FaultsOf("fetch") :
       LET req == Request("delete", NoBody, id)
       IN  /\ Finish("direct", req, Call(req, users, allocated, fault), fault)
           /\ UNCHANGED inflight

(***************************************************************************)
(* The connection module.  pool is its module-level reference: 0 is null,  *)
(* k is the k-th Pool object constructed.  created counts the Pool objects *)
(* constructed, ending holds the pools whose end() has been called, ended  *)
(* those whose end() has resolved, awaiting the calls suspended at their   *)
(* await, and lastCall the call that returned or settled last.             *)
(***************************************************************************)
NoPool == 0

getPool(p, c) ==
  IF p = NoPool
    THEN [pool |-> c + 1, created |-> c + 1]
    ELSE [pool |-> p, created |-> c]

closePoolSettledClearsAlways(p, outcome) == NoPool

closePoolSettled(p, outcome) ==
  IF outcome = "resolved" THEN NoPool ELSE p

EndOutcomes(first) == IF first THEN {"resolved", "rejected"} ELSE {"rejected"}

Outcomes == {"resolved", "rejected"}

Awaiting(call, target, first) == [call |-> call, target |-> target, first |-> first]

PoolCall(call, before, createdBefore, target, outcome) ==
  [call |-> call, before |-> before, createdBefore |-> createdBefore,
   target |-> target, outcome |-> outcome]

NoCall == PoolCall("none", NoPool, 0, NoPool, "none")

GetPool ==
  LET got == getPool(pool, created)
  IN  /\ got.created <= MaxPools
      /\ pool' = got.pool
      /\ created' = got.created
      /\ lastCall' = PoolCall("getPool", pool, created, got.pool, "returned")
      /\ UNCHANGED <<ending, ended, awaiting>>
      /\ UNCHANGED appVars

Query ==
  LET got == getPool(pool, created)
  IN  /\ got.created <= MaxPools
      /\ BagCardinality(awaiting) < MaxAwaiting
      /\ pool' = got.pool
      /\ created' = got.created
      /\ awaiting' = awaiting (+) SetToBag({Awaiting("query", got.pool, FALSE)})
      /\ lastCall' = PoolCall("query", pool, created, got.pool, "awaiting")
      /\ UNCHANGED <<ending, ended>>
      /\ UNCHANGED appVars

GetClient ==
  LET got == getPool(pool, created)
  IN  /\ got.created <= MaxPools
      /\ BagCardinality(awaiting) < MaxAwaiting
      /\ pool' = got.pool
      /\ created' = got.created
      /\ awaiting' = awaiting (+) SetToBag({Awaiting("getClient", got.pool, FALSE)})
      /\ lastCall' = PoolCall("getClient", pool, created, got.pool, "awaiting")
      /\ UNCHANGED <<ending, ended>>
      /\ UNCHANGED appVars

Settle ==
  \E a \in BagToSet(awaiting), outcome \in Outcomes :
    /\ a.call \in {"query", "getClient"}
    /\ awaiting' = awaiting (-) SetToBag({a})
    /\ lastCall' = PoolCall(a.call, pool, created, a.target, outcome)
    /\ UNCHANGED <<pool, created, ending, ended>>
    /\ UNCHANGED appVars

ClosePool ==
  IF pool = NoPool
    THEN /\ lastCall' = PoolCall("closePool", pool, created, NoPool, "returned")
         /\ UNCHANGED <<pool, created, ending, ended, awaiting>>
         /\ UNCHANGED appVars
    ELSE /\ BagCardinality(awaiting) < MaxAwaiting
         /\ awaiting' = awaiting (+) SetToBag({Awaiting("closePool", pool, pool \notin ending)})
         /\ ending' = ending \cup {pool}
         /\ lastCall' = PoolCall("closePool", pool, created, pool, "awaiting")
         /\ UNCHANGED <<pool, created, ended>>
         /\ UNCHANGED appVars

ClosePoolSettle ==
  \E a \in BagToSet(awaiting) :
    /\ a.call = "closePool"
    /\ \E outcome \in EndOutcomes(a.first) :
         /\ pool' = closePoolSettled(pool, outcome)
         /\ ended' = IF outcome = "resolved" THEN ended \cup {a.target} ELSE ended
         /\ awaiting' = awaiting (-) SetToBag({a})
         /\ lastCall' = PoolCall("closePool", pool, created, a.target, outcome)
         /\ UNCHANGED <<created, ending>>
         /\ UNCHANGED appVars

Init ==
  /\ users = {}
  /\ allocated = 0
  /\ inflight = EmptyBag
  /\ last = NothingYet
  /\ everCreated = {}
  /\ deleted = {}
  /\ pool = NoPool
  /\ created = 0
  /\ ending = {}
  /\ ended = {}
  /\ awaiting = EmptyBag
  /\ lastCall = NoCall

Next == PostUsers \/ GetUser \/ DeleteUser \/ HealthCheck \/ Resume \/ Deliver

Spec == Init /\ [][Next]_vars

NextUnit == CallCreateUser \/ CallGetUserById \/ CallDeleteUserById \/ Deliver

SpecUnit == Init /\ [][NextUnit]_vars

NextPool == GetPool \/ Query \/ GetClient \/ Settle \/ ClosePool \/ ClosePoolSettle

SpecPool == Init /\ [][NextPool]_vars
(***************************************************************************)
(* Vocabulary of the properties.  `last` is the call that has just         *)
(* finished: its arguments, the table it ran against (pre), what the       *)
(* operation threw or returned, and the response the route sent.           *)
(***************************************************************************)
Normalized(s) == trim(toLowerCase(s))

HexChars ==
  {"0", "1", "2", "3", "4", "5", "6", "7", "8", "9",
   "a", "b", "c", "d", "e", "f", "A", "B", "C", "D", "E", "F"}

HasUuidShape(s) ==
  /\ Len(s) = 36
  /\ \A i \in {9, 14, 19, 24} : s[i] = "-"
  /\ \A i \in (1..36) \ {9, 14, 19, 24} : s[i] \in HexChars

IsString(v) == v.t = "string"

NameInvalid(v) ==
  \/ ~IsString(v)
  \/ Len(trim(v.s)) = 0
  \/ Len(v.s) > MaxFieldLength

EmailInvalid(v) ==
  \/ ~IsString(v)
  \/ ~isValidEmail(v.s)
  \/ Len(v.s) > MaxFieldLength

PasswordInvalid(v) ==
  \/ ~IsString(v)
  \/ Len(v.s) < MinPasswordLength
  \/ Len(v.s) > MaxFieldLength

CreateFinished == last.op = "create" /\ last.invoked

StoreAnswered == last.fault = "none"

Parsed == last.body.kind \notin {"malformed", "tooLarge"}

StoredIds(db) == {u.id : u \in db}

CreatedIds == {c.id : c \in everCreated}

(***************************************************************************)
(* C1: if a user with email E is stored, a create whose email differs from *)
(* E only in letter case and/or surrounding whitespace (name and password  *)
(* being acceptable) fails with DuplicateEmailError and stores no user.    *)
(* The operation rejects an email with surrounding whitespace as invalid.  *)
(***************************************************************************)
C1_DuplicateUpToCaseAndWhitespace ==
  ( /\ CreateFinished
    /\ StoreAnswered
    /\ ~NameInvalid(last.body.name)
    /\ ~PasswordInvalid(last.body.password)
    /\ IsString(last.body.email)
    /\ \E u \in last.pre : Normalized(last.body.email.s) = Normalized(u.email) )
  => /\ last.error.kind = "DuplicateEmailError"
     /\ users = last.pre

(***************************************************************************)
(* C2: in every reachable state, under every interleaving of create, fetch *)
(* and delete requests, no two stored users have the same email once the   *)
(* emails are trimmed and lower-cased.                                     *)
(***************************************************************************)
C2_EmailUnique ==
  \A u \in users, v \in users :
    Normalized(u.email) = Normalized(v.email) => u = v

C2_Witness ==
  /\ Cardinality(users) >= 2
  /\ CreateFinished
  /\ last.error.kind = "DuplicateEmailError"
  /\ \A u \in users : u.email # last.body.email.s
  /\ inflight # EmptyBag

(***************************************************************************)
(* C3: a create whose input passes validation and whose normalized email   *)
(* is not stored, answered by the store, returns a record whose email is   *)
(* the trimmed lower-cased input email, whose name is the trimmed input    *)
(* name, and which has exactly the fields id, name, email, created_at and  *)
(* updated_at (no password).                                               *)
(***************************************************************************)
C3_CreateReturnsNormalizedRecord ==
  ( /\ CreateFinished
    /\ StoreAnswered
    /\ ~NameInvalid(last.body.name)
    /\ ~EmailInvalid(last.body.email)
    /\ ~PasswordInvalid(last.body.password)
    /\ \A u \in last.pre : u.email # Normalized(last.body.email.s) )
  => /\ last.error = NoError
     /\ last.user.email = Normalized(last.body.email.s)
     /\ last.user.name = trim(last.body.name.s)
     /\ DOMAIN last.user = {"id", "name", "email", "created_at", "updated_at"}

C3_Witness ==
  /\ CreateFinished
  /\ last.error = NoError
  /\ last.user.name # last.body.name.s
  /\ last.user.email # last.body.email.s
  /\ last.user \in {Returning(u) : u \in users}

(***************************************************************************)
(* C4: a fetch of an id that a create returned and no delete has removed   *)
(* returns the record with that id and the name and email the create       *)
(* returned; a fetch of an id whose delete has succeeded fails with        *)
(* UserNotFoundError (the store answering in both cases).                  *)
(***************************************************************************)
C4_FetchFollowsCreateAndDelete ==
  ( /\ last.op = "fetch"
    /\ last.invoked
    /\ StoreAnswered
    /\ IsString(last.id) )
  => /\ \A c \in everCreated :
          (c.id = last.id.s /\ c.id \notin deleted)
            => /\ last.error = NoError
               /\ last.user.id = c.id
               /\ last.user.name = c.name
               /\ last.user.email = c.email
     /\ last.id.s \in deleted => last.error.kind = "UserNotFoundError"

C4_Witness ==
  /\ last.op = "fetch"
  /\ StoreAnswered
  /\ last.id.s \in deleted
  /\ last.id.s \in CreatedIds
  /\ last.error.kind = "UserNotFoundError"

(***************************************************************************)
(* C5: a delete of the id of a stored user succeeds (204); a delete of an  *)
(* id that was created and is no longer stored fails with                  *)
(* UserNotFoundError and is answered 404 user_not_found.                   *)
(***************************************************************************)
C5_DeleteOnceThenNotFound ==
  ( /\ last.op = "delete"
    /\ last.via = "http"
    /\ Parsed
    /\ StoreAnswered
    /\ last.id.s \in CreatedIds )
  => IF last.id.s \in StoredIds(last.pre)
       THEN /\ last.error = NoError
            /\ last.response.status = 204
            /\ last.id.s \notin StoredIds(users)
       ELSE /\ last.error.kind = "UserNotFoundError"
            /\ last.response.status = 404
            /\ last.response.body.error = "user_not_found"

C5_Witness ==
  /\ last.op = "delete"
  /\ last.via = "http"
  /\ last.id.s \in deleted
  /\ last.id.s \notin StoredIds(last.pre)
  /\ last.response.status = 404

(***************************************************************************)
(* C6: fetch and delete called with an id that is absent, not a string or  *)
(* not of the 8-4-4-4-12 hex shape fail with ValidationError on field      *)
(* "id", make no persistence call and leave the table as it was.           *)
(***************************************************************************)
C6_BadIdRejectedBeforePersistence ==
  ( /\ last.op \in {"fetch", "delete"}
    /\ last.invoked
    /\ (~IsString(last.id) \/ ~HasUuidShape(last.id.s)) )
  => /\ last.error.kind = "ValidationError"
     /\ last.error.field = "id"
     /\ last.queries = 0
     /\ users = last.pre

C6_Witness ==
  /\ last.op = "delete"
  /\ last.via = "direct"
  /\ IsString(last.id)
  /\ Len(last.id.s) = 36
  /\ ~HasUuidShape(last.id.s)
  /\ last.error.field = "id"
  /\ users # {}

(***************************************************************************)
(* C7: fetch and delete called with a well-formed UUID that denotes no     *)
(* stored user fail with UserNotFoundError whose message contains the      *)
(* UUID exactly as passed, and leave the table unchanged.                  *)
(***************************************************************************)
C7_UnknownIdNotFound ==
  ( /\ last.op \in {"fetch", "delete"}
    /\ last.invoked
    /\ StoreAnswered
    /\ IsString(last.id)
    /\ HasUuidShape(last.id.s)
    /\ toLowerCase(last.id.s) \notin StoredIds(last.pre) )
  => /\ last.error.kind = "UserNotFoundError"
     /\ includes(last.error.message, last.id.s)
     /\ users = last.pre

C7_Witness ==
  /\ last.op = "delete"
  /\ last.id.s = UnassignedUuidUpper
  /\ last.error.kind = "UserNotFoundError"
  /\ includes(last.error.message, UnassignedUuidUpper)
  /\ users # {}

(***************************************************************************)
(* C8: create validation reports the first failing check in the order      *)
(* name, email, password: an invalid name gives field "name" whatever the  *)
(* email and password are, and a valid name with an invalid email gives    *)
(* field "email" whatever the password is.                                 *)
(***************************************************************************)
C8_ValidationOrder ==
  CreateFinished =>
    /\ NameInvalid(last.body.name)
         => last.error.kind = "ValidationError" /\ last.error.field = "name"
    /\ (~NameInvalid(last.body.name) /\ EmailInvalid(last.body.email))
         => last.error.kind = "ValidationError" /\ last.error.field = "email"

C8_Witness ==
  /\ CreateFinished
  /\ NameInvalid(last.body.name)
  /\ EmailInvalid(last.body.email)
  /\ PasswordInvalid(last.body.password)
  /\ last.error.field = "name"

(***************************************************************************)
(* C9: create with the empty string as name fails with a ValidationError   *)
(* on field "name" whose message is the "cannot be empty" one, whatever    *)
(* the email and password are.  The operation answers with the "required"  *)
(* message instead.                                                        *)
(***************************************************************************)
C9_EmptyNameReportedAsEmpty ==
  (CreateFinished /\ last.body.name = JsString(<<>>))
    => /\ last.error.kind = "ValidationError"
       /\ last.error.field = "name"
       /\ last.error.message = MsgNameEmpty

(***************************************************************************)
(* C10: POST /users with a body that is JSON but not a JSON object (an     *)
(* array) is answered 400 invalid_request without the create operation     *)
(* being invoked.  The route lets an array through to the operation.       *)
(***************************************************************************)
C10_NonObjectBodyRejected ==
  (last.op = "create" /\ last.via = "http" /\ Parsed /\ last.body.kind # "object")
    => /\ last.response.status = 400
       /\ last.response.body.error = "invalid_request"
       /\ ~last.invoked


(***************************************************************************)
(* Vocabulary of the responses: the description each route hands to the    *)
(* error mapper, the texts a response carries, and the secrets of a call   *)
(* (the submitted password, its digest, and every stored digest).          *)
(***************************************************************************)
OperationDescription(op) ==
  IF op = "create" THEN <<"c", "r", "e", "a", "t", "i", "n", "g", " ", "u", "s", "e", "r">>
  ELSE IF op = "fetch" THEN <<"r", "e", "t", "r", "i", "e", "v", "i", "n", "g", " ", "u", "s", "e", "r">>
  ELSE <<"d", "e", "l", "e", "t", "i", "n", "g", " ", "u", "s", "e", "r">>

IsErrorResponse == last.via = "http" /\ last.response.status >= 400

ResponseTexts(r) ==
  {r.body[k] : k \in DOMAIN r.body \cap {"message", "details"}}
    \cup (IF "data" \in DOMAIN r.body
            THEN {r.body.data[k] : k \in DOMAIN r.body.data \cap {"id", "name", "email"}}
            ELSE {})

Secrets ==
  {u.password : u \in last.pre \cup users}
    \cup (IF IsString(last.body.password) /\ Len(last.body.password.s) > 0
            THEN {last.body.password.s, hashPassword(last.body.password.s)}
            ELSE {})

ValidationPasses ==
  IF last.op = "create"
    THEN /\ ~NameInvalid(last.body.name)
         /\ ~EmailInvalid(last.body.email)
         /\ ~PasswordInvalid(last.body.password)
    ELSE IsString(last.id) /\ HasUuidShape(last.id.s)

(***************************************************************************)
(* C11: every error response sent on any route, the 400 for a malformed    *)
(* JSON body and the fallback 500 included, carries a status field equal   *)
(* to "error" and an error code field.                                     *)
(***************************************************************************)
C11_ErrorEnvelope ==
  IsErrorResponse
    => /\ "status" \in DOMAIN last.response.body
       /\ last.response.body.status = "error"
       /\ "error" \in DOMAIN last.response.body

(***************************************************************************)
(* C12: for create, fetch and delete, whenever the persistence call fails  *)
(* because the store cannot be reached, the response is 503                *)
(* database_unavailable with a details field.                              *)
(***************************************************************************)
C12_TransportFailureIs503 ==
  (last.via = "http" /\ last.invoked /\ last.fault \in TransportFaults)
    => /\ last.response.status = 503
       /\ last.response.body.error = "database_unavailable"
       /\ "details" \in DOMAIN last.response.body

(***************************************************************************)
(* C13: for all three operations the response is chosen by the first       *)
(* match among ValidationError (400), DuplicateEmailError (409),           *)
(* UserNotFoundError (404), an Error whose message contains "connect"      *)
(* (503), anything else (500); a domain error whose message contains       *)
(* "connect" is therefore never answered 503.                              *)
(***************************************************************************)
C13_ClassifiedByFirstMatch ==
  (last.via = "http" /\ last.invoked /\ last.error # NoError)
    => LET r == last.response
       IN  IF last.error.kind = "ValidationError"
             THEN /\ r.status = 400
                  /\ r.body.error = "validation_error"
           ELSE IF last.error.kind = "DuplicateEmailError"
             THEN /\ r.status = 409
                  /\ r.body.error = "duplicate_email"
           ELSE IF last.error.kind = "UserNotFoundError"
             THEN /\ r.status = 404
                  /\ r.body.error = "user_not_found"
           ELSE IF last.error.kind = "Error" /\ includes(last.error.message, <<"c", "o", "n", "n", "e", "c", "t">>)
             THEN /\ r.status = 503
                  /\ r.body.error = "database_unavailable"
           ELSE /\ r.status = 500
                /\ r.body.error = "internal_server_error"

C13_Witness ==
  /\ last.via = "http"
  /\ last.error.kind = "DuplicateEmailError"
  /\ includes(last.error.message, <<"c", "o", "n", "n", "e", "c", "t">>)
  /\ last.response.status = 409

(***************************************************************************)
(* C14: a thrown value that is none of the three domain errors and whose   *)
(* message does not contain "connect", a thrown non-Error value included,  *)
(* is answered 500 internal_server_error with the operation description    *)
(* in the message and the value's own message in details.                  *)
(***************************************************************************)
C14_AnythingElseIs500 ==
  ( /\ last.via = "http"
    /\ last.invoked
    /\ last.error # NoError
    /\ last.error.kind \notin {"ValidationError", "DuplicateEmailError", "UserNotFoundError"}
    /\ ~includes(last.error.message, <<"c", "o", "n", "n", "e", "c", "t">>) )
  => /\ last.response.status = 500
     /\ last.response.body.status = "error"
     /\ last.response.body.error = "internal_server_error"
     /\ includes(last.response.body.message, OperationDescription(last.op))
     /\ last.response.body.details = last.error.message

C14_Witness ==
  /\ last.via = "http"
  /\ last.op = "fetch"
  /\ last.error.kind = "thrown"
  /\ last.response.status = 500
  /\ includes(last.response.body.message, <<"r", "e", "t", "r", "i", "e", "v", "i", "n", "g", " ", "u", "s", "e", "r">>)

(***************************************************************************)
(* C15: a 201 of POST /users and a 200 of GET /users/:id have exactly the  *)
(* keys status ("success") and data, and data has exactly the keys id,     *)
(* name, email, created_at, updated_at; no response has a password key or  *)
(* a text that contains the submitted password, its digest or a stored     *)
(* digest.                                                                 *)
(***************************************************************************)
C15_SuccessEnvelopeWithoutPassword ==
  last.via = "http"
    => /\ (last.op \in {"create", "fetch"} /\ last.response.status \in {200, 201})
            => /\ DOMAIN last.response.body = {"status", "data"}
               /\ last.response.body.status = "success"
               /\ DOMAIN last.response.body.data =
                    {"id", "name", "email", "created_at", "updated_at"}
       /\ "password" \notin DOMAIN last.response.body
       /\ \A t \in ResponseTexts(last.response), s \in Secrets : ~includes(t, s)

C15_Witness ==
  /\ last.via = "http"
  /\ last.op = "fetch"
  /\ last.response.status = 200
  /\ \E u \in users : u.id = last.response.body.data.id /\ Len(u.password) > 0

(***************************************************************************)
(* C16: an invocation of create, fetch or delete makes exactly one         *)
(* persistence call when its validation passes and none when it fails;     *)
(* a persistence call that fails is not repeated.                          *)
(***************************************************************************)
C16_OnePersistenceCall ==
  last.invoked
    => /\ last.queries = IF ValidationPasses THEN 1 ELSE 0
       /\ last.fault # "none" => last.queries = 1

C16_Witness ==
  /\ last.via = "direct"
  /\ last.op = "create"
  /\ last.fault = "connect"
  /\ last.error # NoError
  /\ last.queries = 1

(***************************************************************************)
(* C17: of two create requests in flight together whose emails normalize   *)
(* to the same value, one succeeds and the other fails with                *)
(* DuplicateEmailError: the one that finishes while the other is in flight *)
(* succeeds if the normalized email is not stored and fails with           *)
(* DuplicateEmailError if it is, and two users created under one           *)
(* normalized email are never stored together.                             *)
(***************************************************************************)
C17_ConcurrentCreatesOneWins ==
  /\ \A c1, c2 \in everCreated :
       (c1 # c2 /\ c1.email = c2.email) => (c1.id \in deleted \/ c2.id \in deleted)
  /\ ( /\ last.op = "create"
       /\ last.via = "http"
       /\ last.body.kind = "object"
       /\ StoreAnswered
       /\ ~NameInvalid(last.body.name)
       /\ ~PasswordInvalid(last.body.password)
       /\ IsString(last.body.email)
       /\ \E req \in BagToSet(inflight) :
            /\ req.op = "create"
            /\ Normalized(req.body.email.s) = Normalized(last.body.email.s) )
     => IF Normalized(last.body.email.s) \in {u.email : u \in last.pre}
          THEN last.error.kind = "DuplicateEmailError"
          ELSE last.error = NoError

(***************************************************************************)
(* C18: when the persistence call of create, fetch or delete throws an     *)
(* error other than a unique-constraint violation, the operation throws    *)
(* that same error.                                                        *)
(***************************************************************************)
C18_PersistenceErrorRethrown ==
  (last.via = "direct" /\ last.fault \in ThrowingFaults)
    => last.error = FaultError(last.fault)

C18_Witness ==
  /\ last.via = "direct"
  /\ last.op = "create"
  /\ last.fault = "thrown"
  /\ last.error = JsThrown(MsgThrown)

(***************************************************************************)
(* C19: given a valid email and password, create accepts every name whose  *)
(* trimmed length is between 1 and 255, however long the untrimmed name    *)
(* is, and rejects every whitespace-only name.                             *)
(***************************************************************************)
C19_NameJudgedByTrimmedLength ==
  ( /\ CreateFinished
    /\ IsString(last.body.name)
    /\ ~EmailInvalid(last.body.email)
    /\ ~PasswordInvalid(last.body.password) )
  => /\ Len(trim(last.body.name.s)) \in 1..MaxFieldLength
          => last.error.kind # "ValidationError"
     /\ Len(trim(last.body.name.s)) = 0
          => last.error.kind = "ValidationError" /\ last.error.field = "name"

(***************************************************************************)
(* C19 as amended: given a valid email and password, create accepts every  *)
(* name whose trimmed length is at least 1 and whose untrimmed length is   *)
(* at most 255; it rejects, on field "name", every whitespace-only name    *)
(* and every name whose untrimmed length is above 255, also when only      *)
(* surrounding whitespace takes it above 255.                              *)
(***************************************************************************)
C19_NameJudgedByUntrimmedLength ==
  ( /\ CreateFinished
    /\ IsString(last.body.name)
    /\ ~EmailInvalid(last.body.email)
    /\ ~PasswordInvalid(last.body.password) )
  => /\ (Len(trim(last.body.name.s)) >= 1 /\ Len(last.body.name.s) <= MaxFieldLength)
          => last.error.kind # "ValidationError"
     /\ (Len(trim(last.body.name.s)) = 0 \/ Len(last.body.name.s) > MaxFieldLength)
          => last.error.kind = "ValidationError" /\ last.error.field = "name"

C19_Witness ==
  /\ CreateFinished
  /\ IsString(last.body.name)
  /\ ~EmailInvalid(last.body.email)
  /\ ~PasswordInvalid(last.body.password)
  /\ Len(last.body.name.s) > MaxFieldLength
  /\ Len(trim(last.body.name.s)) \in 1..MaxFieldLength
  /\ last.error = ValidationError(MsgNameTooLong, "name")
  /\ last.queries = 0

(***************************************************************************)
(* C20: a request whose body is not well-formed JSON is answered 400 with  *)
(* error "invalid_json" on every route; no user operation runs, no         *)
(* persistence call is made and the table stays as it was.                 *)
(***************************************************************************)
C20_MalformedJsonRejected ==
  (last.via = "http" /\ last.body.kind = "malformed")
    => /\ last.response.status = 400
       /\ last.response.body.error = "invalid_json"
       /\ ~last.invoked
       /\ last.queries = 0
       /\ users = last.pre

C20_Witness ==
  /\ last.via = "http"
  /\ last.op = "delete"
  /\ last.body.kind = "malformed"
  /\ last.id.s \in StoredIds(users)
  /\ last.response.status = 400

(***************************************************************************)
(* Vocabulary of the later properties: the emails stored in a table, the   *)
(* text of an id as the store compares it, a response without the fields   *)
(* the store assigns, and passwords other than the submitted one.          *)
(***************************************************************************)
StoredEmails(db) == {u.email : u \in db}

IdKey(v) == toLowerCase(v.s)

WithoutStoreAssigned(r) ==
  IF "data" \in DOMAIN r.body
    THEN [status |-> r.status,
          body |-> [status |-> r.body.status,
                    data |-> [k \in DOMAIN r.body.data \ {"id", "created_at", "updated_at"}
                                |-> r.body.data[k]]]]
    ELSE r

OtherPasswords == {JsString(<<"p", "a", "s", "s", "w", "0", "r", "d">>), JsString(Repeat("p", MaxFieldLength))}

(***************************************************************************)
(* C21: a create whose normalized email is already stored is answered 409  *)
(* with error "duplicate_email", field "email" and a message that holds    *)
(* the email exactly as the request gave it.                               *)
(***************************************************************************)
C21_DuplicateAnswered409 ==
  ( /\ CreateFinished
    /\ last.via = "http"
    /\ StoreAnswered
    /\ ValidationPasses
    /\ Normalized(last.body.email.s) \in StoredEmails(last.pre) )
  => /\ last.response.status = 409
     /\ last.response.body.status = "error"
     /\ last.response.body.error = "duplicate_email"
     /\ last.response.body.field = "email"
     /\ includes(last.response.body.message, last.body.email.s)

C21_Witness ==
  /\ CreateFinished
  /\ last.via = "http"
  /\ last.body.email.s = <<"A", "@", "B", ".", "C">>
  /\ <<"a", "@", "b", ".", "c">> \in StoredEmails(last.pre)
  /\ last.response.status = 409
  /\ includes(last.response.body.message, <<"A", "@", "B", ".", "C">>)

(***************************************************************************)
(* C22: the password a successful create stores is the digest of the       *)
(* submitted password and not the plaintext; no stored row holds the       *)
(* plaintext and no response text contains it.                             *)
(***************************************************************************)
C22_OnlyDigestStored ==
  (last.op = "create" /\ last.via = "http" /\ IsString(last.body.password)
     /\ Len(last.body.password.s) > 0)
  => /\ \A u \in users \ last.pre :
          /\ u.password = hashPassword(last.body.password.s)
          /\ u.password # last.body.password.s
     /\ \A u \in users : last.body.password.s \notin {u.password, u.name, u.email, u.id}
     /\ \A t \in ResponseTexts(last.response) : ~includes(t, last.body.password.s)

C22_Witness ==
  /\ last.op = "create"
  /\ last.via = "http"
  /\ last.response.status = 201
  /\ \E u \in users \ last.pre : u.password = hashPassword(last.body.password.s)

(***************************************************************************)
(* C23: GET /health_check answers 200 with exactly the keys status ("ok"), *)
(* timestamp and service ("api") whatever the table holds and whatever     *)
(* the store would answer; it makes no persistence call.                   *)
(***************************************************************************)
C23_HealthCheckAlways200 ==
  (last.via = "http" /\ last.op = "health" /\ Parsed)
    => /\ last.response.status = 200
       /\ DOMAIN last.response.body = {"status", "timestamp", "service"}
       /\ last.response.body.status = "ok"
       /\ last.response.body.service = "api"
       /\ last.queries = 0
       /\ last.sent = 1
       /\ users = last.pre

C23_Witness ==
  /\ last.via = "http"
  /\ last.op = "health"
  /\ last.response.status = 200
  /\ users # {}
  /\ inflight # EmptyBag

(***************************************************************************)
(* C24: when the insert returns no row and raises no error, create fails   *)
(* with the generic Error, the route answers 500 internal_server_error,    *)
(* and no user is reported.                                                *)
(***************************************************************************)
C24_ZeroRowsIs500 ==
  (last.op = "create" /\ last.via = "http" /\ last.fault = "norows")
    => /\ last.error = JsError(MsgNoRows, "")
       /\ last.user = NoUser
       /\ last.response.status = 500
       /\ last.response.body.error = "internal_server_error"
       /\ "data" \notin DOMAIN last.response.body
       /\ users = last.pre
       /\ \A c \in everCreated : c.id \in StoredIds(last.pre) \/ c.id \in deleted

C24_Witness ==
  /\ last.op = "create"
  /\ last.via = "http"
  /\ last.fault = "norows"
  /\ last.response.status = 500
  /\ last.response.body.details = MsgNoRows

(***************************************************************************)
(* C25: a create, fetch or delete that ends in an error leaves the table   *)
(* as it was before the call, and so does every fetch.                     *)
(***************************************************************************)
C25_FailureChangesNothing ==
  (last.invoked /\ (last.error # NoError \/ last.op = "fetch"))
    => users = last.pre

C25_Witness ==
  /\ last.via = "direct"
  /\ last.op = "delete"
  /\ last.fault = "unexpected"
  /\ last.error # NoError
  /\ IdKey(last.id) \in StoredIds(users)

(***************************************************************************)
(* C26: a successful delete removes exactly the one user with that id; a   *)
(* successful create adds exactly one user, the one it reports, and keeps  *)
(* every other row; every stored user has the id, name, email and          *)
(* created_at its create reported.                                         *)
(***************************************************************************)
C26_SuccessChangesOneUser ==
  /\ (last.op = "delete" /\ last.invoked /\ last.error = NoError)
       => LET gone == {u \in last.pre : u.id = IdKey(last.id)}
          IN  /\ Cardinality(gone) = 1
              /\ users = last.pre \ gone
  /\ (CreateFinished /\ last.error = NoError)
       => LET added == users \ last.pre
          IN  /\ Cardinality(added) = 1
              /\ last.pre \subseteq users
              /\ \A u \in added : Returning(u) = last.user /\ u.id \notin StoredIds(last.pre)
  /\ \A u \in users :
       \E c \in everCreated :
         /\ c.id = u.id
         /\ c.name = u.name
         /\ c.email = u.email
         /\ c.created_at = u.created_at

C26_Witness ==
  /\ last.op = "delete"
  /\ last.via = "http"
  /\ last.error = NoError
  /\ users # {}
  /\ users = last.pre \ {u \in last.pre : u.id = IdKey(last.id)}

(***************************************************************************)
(* C27: of two deletes of one stored id that are in flight together, one   *)
(* is answered 204 and the other 404: a delete succeeds exactly when the   *)
(* id is stored at that moment and a deleted id is never stored again; a   *)
(* fetch running beside them returns the complete record or                *)
(* UserNotFoundError.                                                      *)
(***************************************************************************)
C27_ConcurrentDeletesOneWins ==
  /\ \A i \in deleted : i \notin StoredIds(users)
  /\ ( /\ last.op = "delete"
       /\ last.via = "http"
       /\ Parsed
       /\ StoreAnswered
       /\ HasUuidShape(last.id.s) )
     => IF IdKey(last.id) \in StoredIds(last.pre)
          THEN /\ last.error = NoError
               /\ last.response.status = 204
               /\ IdKey(last.id) \in deleted
          ELSE /\ last.error.kind = "UserNotFoundError"
               /\ last.response.status = 404
  /\ ( /\ last.op = "fetch"
       /\ last.via = "http"
       /\ Parsed
       /\ StoreAnswered
       /\ HasUuidShape(last.id.s) )
     => \/ /\ last.error = NoError
           /\ last.response.status = 200
           /\ \E u \in last.pre : u.id = IdKey(last.id) /\ Returning(u) = last.user
        \/ /\ last.error.kind = "UserNotFoundError"
           /\ last.response.status = 404

C27_Witness ==
  /\ last.op = "delete"
  /\ last.via = "http"
  /\ last.response.status = 204
  /\ \E req \in BagToSet(inflight) :
       req.op = "delete" /\ IdKey(req.id) = IdKey(last.id)

(***************************************************************************)
(* C28: a request to POST /users, GET /users/:id or DELETE /users/:id      *)
(* whose persistence call returned or threw is answered with exactly one   *)
(* response.                                                               *)
(***************************************************************************)
C28_ExactlyOneResponse ==
  (last.via = "http" /\ last.op \in {"create", "fetch", "delete"} /\ last.queries > 0)
    => last.sent = 1

C28_Witness ==
  /\ last.via = "http"
  /\ last.op = "delete"
  /\ last.fault = "thrown"
  /\ last.sent = 1
  /\ last.response.status = 500

(***************************************************************************)
(* C29: a create run against the same table with the same name and email   *)
(* and another valid password gets the same status and the same body,      *)
(* the id and the timestamps the store assigns aside.                      *)
(***************************************************************************)
C29_ResponseIndependentOfPassword ==
  ( /\ last.op = "create"
    /\ last.via = "http"
    /\ last.body.kind = "object"
    /\ ~PasswordInvalid(last.body.password) )
  => \A pw \in OtherPasswords :
       LET req == Request("create", [last.body EXCEPT !.password = pw], Undefined)
           other == app(req, last.pre, last.preAllocated, last.fault, "production")
       IN  /\ ~PasswordInvalid(pw)
           /\ WithoutStoreAssigned(other.response) = WithoutStoreAssigned(last.response)

C29_Witness ==
  /\ last.op = "create"
  /\ last.via = "http"
  /\ last.response.status = 201
  /\ \E pw \in OtherPasswords :
       hashPassword(pw.s) # hashPassword(last.body.password.s)

(***************************************************************************)
(* C30: the pool is a lazy singleton.  Every Pool object constructed is    *)
(* either the one referenced or one whose end() has resolved; getPool,     *)
(* query and getClient construct a pool exactly when none is referenced    *)
(* and otherwise use the referenced one; the reference is cleared only by  *)
(* a closePool whose pool.end() resolved, on the pool it ended; a          *)
(* closePool whose pool.end() rejected leaves the reference as it was.     *)
(***************************************************************************)
C30_PoolIsLazySingleton ==
  /\ pool \in 0..created
  /\ \A k \in 1..created : k = pool \/ k \in ended
  /\ (lastCall.call \in {"getPool", "query", "getClient"}
        /\ lastCall.outcome \in {"returned", "awaiting"})
       => IF lastCall.before = NoPool
            THEN /\ created = lastCall.createdBefore + 1
                 /\ pool = created
                 /\ lastCall.target = pool
            ELSE /\ created = lastCall.createdBefore
                 /\ pool = lastCall.before
                 /\ lastCall.target = pool
  /\ (lastCall.before # NoPool /\ pool = NoPool)
       => /\ lastCall.call = "closePool"
          /\ lastCall.outcome = "resolved"
          /\ lastCall.target = lastCall.before
          /\ lastCall.before \in ended
  /\ (lastCall.call = "closePool" /\ lastCall.outcome = "rejected")
       => pool = lastCall.before

C30_Witness ==
  /\ lastCall.call = "getPool"
  /\ lastCall.before = NoPool
  /\ created = 2
  /\ pool = 2
  /\ 1 \in ended
====
